---------------------------- MODULE Spec2Model ----------------------------
(***************************************************************************)
(* koishi-plugin-minimax-vits: the on-disk audio cache                     *)
(* (AudioCacheManager, lib/cache.js), the synthesis client                 *)
(* (generateSpeech, src/api.ts) and the before-send auto-speech hook       *)
(* (apply, lib/index.js).                                                  *)
(*                                                                         *)
(* Execution model: one node.js event loop.  Every `await` on a disk or    *)
(* network call is a suspension point; the code between two suspension     *)
(* points runs atomically.  Each action below is one such atomic run.      *)
(* Disk calls issued by different coroutines complete in any order.        *)
(***************************************************************************)
EXTENDS Integers, Sequences, FiniteSets, TLC

(***************************************************************************)
(* Bounds of the model.                                                    *)
(***************************************************************************)
NumProcs == 2      \* concurrent generateSpeech callers
MaxTasks == 1      \* detached deleteEntry coroutines alive at once
MaxTime  == 1      \* Date.now() ranges over 0..MaxTime
MaxFaults == 1     \* disk / network faults injected in one behaviour
MaxAge   == 0      \* options.maxAge, in clock ticks
MaxSize  == 2      \* options.maxSize, in bytes
MaxCalls == 2      \* generateSpeech calls in one behaviour

Procs   == 1..NumProcs
Tasks   == (NumProcs + 1)..(NumProcs + MaxTasks)
Threads == Procs \cup Tasks

(***************************************************************************)
(* Values.  Text is a sequence of one-character strings, a Buffer a        *)
(* sequence of bytes.                                                      *)
(***************************************************************************)
Null == [null |-> TRUE, buf |-> <<>>]
Some(b) == [null |-> FALSE, buf |-> b]

BaseConfig ==
  [ttsApiKey |-> "key", speed |-> 1, vol |-> 1, pitch |-> 0,
   audioFormat |-> "mp3", sampleRate |-> 32, bitrate |-> 128,
   languageBoost |-> "auto"]

\* The calls the callers make: generateSpeech(ctx, config, text, voiceId,
\* cacheManager).  Request 2 changes the speed (the test command's -s), 3 the
\* sample rate, 4 has no API key, 5 passes no cache manager.
Requests ==
  <<[text |-> <<"a">>, voiceId |-> <<"v">>, config |-> BaseConfig, cache |-> TRUE],
    [text |-> <<"a">>, voiceId |-> <<"v">>,
     config |-> [BaseConfig EXCEPT !.speed = 2], cache |-> TRUE],
    [text |-> <<"a">>, voiceId |-> <<"v">>,
     config |-> [BaseConfig EXCEPT !.sampleRate = 16], cache |-> TRUE],
    [text |-> <<"a">>, voiceId |-> <<"v">>,
     config |-> [BaseConfig EXCEPT !.ttsApiKey = ""], cache |-> TRUE],
    [text |-> <<"a">>, voiceId |-> <<"v">>, config |-> BaseConfig, cache |-> FALSE]>>

ReqIds == 1..Len(Requests)

\* The remote service's rendering of a request: every byte tells the speed
\* (tens) and the sample rate (units: 0 for 32 kHz, 1 for 16 kHz) it was
\* rendered with, and the renderings differ in length.
AudioByte(config) == 10 * config.speed + (IF config.sampleRate = 32 THEN 0 ELSE 1)
Audio(req) ==
  [i \in 1..(req.config.speed + (IF req.config.sampleRate = 32 THEN 0 ELSE 1)) |->
     AudioByte(req.config)]

(***************************************************************************)
(* calculateHash: md5 of `${text}|${voiceId}|${JSON.stringify(params)}`.   *)
(* md5 is taken to be injective, so the hash is the hashed string itself.  *)
(***************************************************************************)
RECURSIVE NumStr(_)
NumStr(n) ==
  LET d == n % 10
      c == CASE d = 0 -> "0" [] d = 1 -> "1" [] d = 2 -> "2" [] d = 3 -> "3"
             [] d = 4 -> "4" [] d = 5 -> "5" [] d = 6 -> "6" [] d = 7 -> "7"
             [] d = 8 -> "8" [] d = 9 -> "9"
  IN IF n < 10 THEN <<c>> ELSE NumStr(n \div 10) \o <<c>>

\* JSON.stringify of the cacheParams object: keys in insertion order.
JSONStringify(params) ==
  <<"{", "\"speed\":">> \o NumStr(params.speed) \o
  <<",", "\"vol\":">> \o NumStr(params.vol) \o
  <<",", "\"pitch\":">> \o NumStr(params.pitch) \o
  <<",", "\"format\":", "\"", params.format, "\"", "}">>

\* Faulty variant of calculateHash: the parameters are left out of the key.
calculateHashNoParams(text, voiceId, params) == text \o <<"|">> \o voiceId

calculateHash(text, voiceId, params) ==
  text \o <<"|">> \o voiceId \o <<"|">> \o JSONStringify(params)

\* const cacheParams = { speed, vol, pitch, format } (api.ts, both places)
cacheParams(config) ==
  [speed |-> config.speed, vol |-> config.vol, pitch |-> config.pitch,
   format |-> config.audioFormat]

\* path.join(this.root, `${hash}.mp3`)
FilePath(hash) == <<"cache/">> \o hash \o <<".mp3">>

ReqHash(r) ==
  calculateHash(Requests[r].text, Requests[r].voiceId, cacheParams(Requests[r].config))


(***************************************************************************)
(* State.                                                                  *)
(***************************************************************************)
VARIABLES
  cacheIndex,   \* this.cacheIndex: the set of entries, one per hash (a Map)
  files,        \* the audio files of the cache directory: [path, buf]
  indexFile,    \* index.json: [state, data, len]
  now,          \* Date.now()
  thr,          \* the coroutines: callers of generateSpeech and deleteEntry tasks
  faults,       \* faults injected so far
  started,      \* generateSpeech calls begun so far
  healed,       \* history: hashes whose backing file a lookup found unreadable
  indexWriteFailed, \* history: a write of index.json has failed
  life,         \* the cache manager's life: which manager it is, disposed or not
  hook,         \* the before-send hook handling a message: position and locals
  out,          \* what the hook has done to the outside: calls made, messages sent
  txt           \* a text given to cleanModelOutput / splitTextIntoSegments, and the results

cacheVars == <<cacheIndex, files, indexFile, now, thr, faults, started, healed,
               indexWriteFailed, life>>
hookVars == <<hook, out>>
textVars == <<txt>>
vars == <<cacheVars, hookVars, textVars>>

\* No text has been given to the text functions yet.
NoText ==
  [pc |-> "idle", input |-> <<>>, cleaned |-> <<>>, segments |-> <<>>, again |-> <<>>]

\* The hook before a message arrives, and an outside it has not touched.
\* session.content is the text and the audio elements appended to it.
NoHook ==
  [pc |-> "idle", cfg |-> [selectorMode |-> "full", sendMode |-> "voice_only",
                           onlyChatLuna |-> FALSE, openaiLike |-> FALSE],
   selfId |-> "", channelId |-> FALSE, chatluna |-> FALSE,
   original |-> <<>>, content |-> [text |-> <<>>, audio |-> <<>>],
   cleanedText |-> <<>>, targetText |-> <<>>, segments |-> <<>>,
   audioBuffers |-> <<>>, attempt |-> 0, filter |-> "none", reply |-> <<>>,
   sending |-> <<>>, finalBuffer |-> <<>>, selector |-> "none",
   selected |-> [null |-> TRUE, buf |-> <<>>], stages |-> <<>>, order |-> <<>>,
   sendOk |-> "none"]

NoOut ==
  [chatCalls |-> 0, chatThrows |-> 0, sleeps |-> 0, filterPosts |-> 0,
   genCalls |-> <<>>, sent |-> <<>>, nested |-> <<>>]

\* History of a caller's last call, kept when it stored its audio, no fault
\* has been injected and maxAge has not elapsed since.
NoPrev == [valid |-> FALSE, req |-> 0, buf |-> <<>>, calls |-> 0,
           cold |-> FALSE, saveQuiet |-> FALSE, gen |-> 0]

\* No response of the service yet.
NoResponse == [kind |-> "none", status |-> 0, hex |-> <<>>, body |-> <<>>]

Idle ==
  [pc |-> "idle", req |-> 0, hash |-> <<>>, path |-> <<>>, buf |-> <<>>,
   snap |-> {}, res |-> Null, calls |-> 0, hit |-> FALSE, saved |-> FALSE,
   savedAt |-> 0, stale |-> FALSE, cold |-> FALSE, quiet |-> FALSE,
   saveQuiet |-> FALSE, after |-> NoPrev, resp |-> NoResponse,
   gen |-> 0, ready |-> FALSE, second |-> FALSE]

NoIndexFile == [state |-> "absent", data |-> {}, len |-> 0]

\* The first manager, constructed by apply and not disposed: gen counts the
\* managers constructed on the directory, early is the set of callers that
\* were in flight and had not reached saveAudio when dispose() was called.
FirstLife == [gen |-> 1, disposed |-> FALSE, early |-> {}]

Init ==
  /\ cacheIndex = {}
  /\ files = {}
  /\ indexFile = NoIndexFile
  /\ now = 0
  /\ thr = [t \in Threads |-> Idle]
  /\ faults = 0
  /\ started = 0
  /\ healed = {}
  /\ indexWriteFailed = FALSE
  /\ life = FirstLife
  /\ hook = NoHook
  /\ out = NoOut
  /\ txt = NoText

(***************************************************************************)
(* Helpers over the Map and the directory.                                 *)
(***************************************************************************)
\* Faulty variant of IndexSet: the entry is never put into the Map.
IndexSetDropped(idx, e) == idx

IndexGet(idx, hash) == {e \in idx : e.hash = hash}
IndexSet(idx, e) == {x \in idx : x.hash # e.hash} \cup {e}
IndexDelete(idx, hash) == {x \in idx : x.hash # hash}

FileAt(fs, path) == {f \in fs : f.path = path}
existsSync(fs, path) == FileAt(fs, path) # {}
RemoveFile(fs, path) == {f \in fs : f.path # path}

RECURSIVE SumLen(_)
SumLen(fs) ==
  IF fs = {} THEN 0
  ELSE LET f == CHOOSE x \in fs : TRUE IN Len(f.buf) + SumLen(fs \ {f})

\* Bytes of audio in the cache directory.
TotalSize == SumLen(files)

CanFail == faults < MaxFaults
\* A coroutine that is not running: never started, returned or threw.
Resting(rec) == rec.pc \in {"idle", "done", "threw"}
Quiescent == \A t \in Threads : Resting(thr[t])
FreeTask == \E t \in Tasks : thr[t].pc = "idle"
TheFreeTask == CHOOSE t \in Tasks : thr[t].pc = "idle"


(***************************************************************************)
(* AudioCacheManager (lib/cache.js).                                       *)
(***************************************************************************)
\* Faulty variant of Expired: the age of an entry is never looked at.
ExpiredNever(t, entry) == FALSE

\* Date.now() - entry.timestamp > this.options.maxAge
Expired(t, entry) == t - entry.timestamp > MaxAge

\* deleteEntry from `this.cacheIndex.delete(hash)` on: drop the entry, take
\* the snapshot of saveIndex and start writing index.json.
deleteEntryFinish(idx, hash) ==
  LET idx2 == IndexDelete(idx, hash)
  IN [idx |-> idx2,
      task |-> [Idle EXCEPT !.pc = "iw_open", !.hash = hash, !.snap = idx2]]

\* deleteEntry up to its first await.  The callers never await it: it goes on
\* as a detached coroutine (`task`; pc "idle" when it has nothing to do).
deleteEntry(idx, fs, hash) ==
  LET E == IndexGet(idx, hash)
      e == CHOOSE x \in E : TRUE
  IN IF E = {} THEN [idx |-> idx, task |-> Idle]
     ELSE IF existsSync(fs, e.filePath)
       THEN [idx |-> idx,
             task |-> [Idle EXCEPT !.pc = "unlink", !.hash = hash,
                                   !.path = e.filePath]]
       ELSE deleteEntryFinish(idx, hash)

\* getAudio up to the readFile: "miss" (return null, perhaps having started
\* deleteEntry on an expired entry) or "read" (awaiting readFile).
getAudio(idx, fs, t, hash) ==
  LET E == IndexGet(idx, hash)
      e == CHOOSE x \in E : TRUE
  IN IF E = {} THEN [kind |-> "miss", idx |-> idx, task |-> Idle, path |-> <<>>]
     ELSE IF Expired(t, e)
       THEN LET d == deleteEntry(idx, fs, hash)
            IN [kind |-> "miss", idx |-> d.idx, task |-> d.task, path |-> <<>>]
       ELSE [kind |-> "read", idx |-> idx, task |-> Idle, path |-> e.filePath]

\* getAudio's catch around readFile: warn, deleteEntry, fall through to
\* `return null`.
getAudioCatch(idx, fs, hash) ==
  LET d == deleteEntry(idx, fs, hash)
  IN [kind |-> "miss", idx |-> d.idx, task |-> d.task]

\* Faulty variant of saveAudioEntry: the entry records the bare file name,
\* not the path under the cache root.
saveAudioEntryBareName(hash, path, t) ==
  [hash |-> hash, filePath |-> hash \o <<".mp3">>, timestamp |-> t]

\* saveAudio's entry: { hash, filePath, timestamp: Date.now(), ... }
saveAudioEntry(hash, path, t) == [hash |-> hash, filePath |-> path, timestamp |-> t]

\* Faulty variant of saveAudioCatch: the error is thrown on to the caller.
saveAudioRethrow == "throw"

\* saveAudio's catch (writeFile of the audio failed): warn and return.
saveAudioCatch == "return"

\* saveIndex's catch (writeFile of index.json failed): warn and return.
saveIndexCatch == "return"

\* prune(): an empty body.
prune(fs) == fs

\* fs.writeFile(path, data) is open(path, 'w'), which creates or truncates
\* the file, then write(data) at offset 0.  Bytes another writer put beyond
\* the end of `data` since the truncation stay in the file.
Overlay(data, old) ==
  IF Len(old) > Len(data) THEN data \o SubSeq(old, Len(data) + 1, Len(old))
  ELSE data

\* Length of JSON.stringify(Array.from(index.values())), in entries.
SerLen(idx) == Cardinality(idx)

\* index.json after write(data) at offset 0 of JSON.stringify(snap).  A
\* shorter text over a longer one leaves a tail: not JSON any more.
IndexOverlay(snap, file) ==
  IF file.len > SerLen(snap)
    THEN [state |-> "bad", data |-> {}, len |-> file.len]
    ELSE [state |-> "ok", data |-> snap, len |-> SerLen(snap)]


(***************************************************************************)
(* generateSpeech (src/api.ts).                                            *)
(***************************************************************************)
HexDigits == <<"0", "1", "2", "3", "4", "5", "6", "7", "8", "9",
               "a", "b", "c", "d", "e", "f">>
HexVal(c) ==
  IF \E i \in 1..16 : HexDigits[i] = c
    THEN (CHOOSE i \in 1..16 : HexDigits[i] = c) - 1
    ELSE -1

\* Buffer.from(s, 'hex'): two digits a byte, stopping at the first pair that
\* is not hexadecimal; an odd last digit is dropped.
RECURSIVE HexDecode(_)
HexDecode(s) ==
  IF Len(s) < 2 \/ HexVal(s[1]) < 0 \/ HexVal(s[2]) < 0 THEN <<>>
  ELSE <<16 * HexVal(s[1]) + HexVal(s[2])>> \o HexDecode(SubSeq(s, 3, Len(s)))

\* The service's hex text of a buffer (output_format: 'hex').
RECURSIVE HexEncode(_)
HexEncode(b) ==
  IF b = <<>> THEN <<>>
  ELSE <<HexDigits[(b[1] \div 16) + 1], HexDigits[(b[1] % 16) + 1]>> \o
       HexEncode(Tail(b))

\* What ctx.http.post resolves with for a request, or its rejection.
\*   bin:     a body that does not begin with { or [
\*   json:    a parsable JSON text; status is base_resp.status_code (0 also
\*            when it is absent), hex is data.audio (empty when absent)
\*   badjson: a body that begins with { and does not parse
Responses(req) ==
  {[kind |-> "reject", status |-> 0, hex |-> <<>>, body |-> <<>>]} \cup
  {[kind |-> "bin", status |-> 0, hex |-> <<>>, body |-> b] : b \in {Audio(req), <<>>}} \cup
  {[kind |-> "badjson", status |-> 0, hex |-> <<>>, body |-> Audio(req)]} \cup
  {[kind |-> "json", status |-> c, hex |-> x, body |-> <<>>] :
     c \in {0, 1}, x \in {<<>>, HexEncode(Audio(req)), <<"z", "z">>}}

\* Lines 115-118, with the error check left out.
statusNeverFails(resp) == FALSE

\* Lines 115-118: base_resp.status_code is present and not 0.
statusFails(resp) == resp.status # 0

\* Lines 103-146: audioData after the inner try and catch.  A body that
\* JSON.parse rejects lands in the catch, which takes the raw bytes.
audioDataOf(resp) ==
  CASE resp.kind = "bin" -> Some(resp.body)
    [] resp.kind = "badjson" -> Some(resp.body)
    [] resp.kind = "json" ->
         IF statusFails(resp) THEN Null
         ELSE IF resp.hex # <<>> THEN Some(HexDecode(resp.hex))
         ELSE Null

\* Line 148, testing for null only.
invalidAudioNullOnly(audioData) == audioData.null

\* Line 148: !audioData || audioData.length === 0.
invalidAudio(audioData) == audioData.null \/ Len(audioData.buf) = 0

\* Lines 103-151: the audio decoded from a response that arrived, or null.
decodeResponse(resp) ==
  LET audioData == audioDataOf(resp)
  IN IF invalidAudio(audioData) THEN Null ELSE audioData

\* After a cache miss: the API key check, then the POST.
callApi(me, req) ==
  IF req.config.ttsApiKey = ""
    THEN [me EXCEPT !.pc = "done", !.res = Null]
    ELSE [me EXCEPT !.pc = "http", !.calls = me.calls + 1]

\* The argument list of the cacheManager.saveAudio call.
saveAudioArgs(text, voiceId, config, audioBuffer) ==
  [text |-> text, voiceId |-> voiceId, params |-> cacheParams(config),
   buffer |-> audioBuffer]

\* saveAudio returned or threw inside generateSpeech's try.
afterSaveAudio(me, how) ==
  IF how = "return" THEN [me EXCEPT !.pc = "done", !.res = Some(me.buf)]
  ELSE [me EXCEPT !.pc = "done", !.res = Null]

(***************************************************************************)
(* History bookkeeping: which coroutines ran while a call was under way.   *)
(***************************************************************************)
\* quiet: no other coroutine has run since this call's getAudio began.
\* saveQuiet: no other coroutine has run since this call's saveAudio began.
Disturb(rec) ==
  [rec EXCEPT !.quiet = IF rec.pc = "read" THEN FALSE ELSE @,
              !.saveQuiet = FALSE]

ProcStep(p, T) ==
  [x \in Threads |-> IF x = p \/ x \notin Procs THEN T[x] ELSE Disturb(T[x])]

TaskStep(T) ==
  [x \in Threads |-> IF x \notin Procs THEN T[x] ELSE Disturb(T[x])]

OthersIdle(p, S) == \A x \in S \ {p} : Resting(thr[x])

\* The calls of the sequential runs: those with an API key and a cache manager.
SeqReqIds == {r \in ReqIds : Requests[r].cache /\ Requests[r].config.ttsApiKey # ""}

\* The caller of the sequential runs.
SeqProc == CHOOSE p \in Procs : \A q \in Procs : p <= q

Spawn(T, task) == IF task.pc = "idle" THEN T ELSE [T EXCEPT ![TheFreeTask] = task]


(***************************************************************************)
(* Actions.                                                                *)
(***************************************************************************)
\* generateSpeech is called: the cache lookup up to its first await, and on a
\* miss the API key check and the POST.
GenStart(p, r) ==
  LET req == Requests[r]
      h == ReqHash(r)
      g == IF req.cache THEN getAudio(cacheIndex, files, now, h)
           ELSE [kind |-> "miss", idx |-> cacheIndex, task |-> Idle, path |-> <<>>]
      E == IndexGet(cacheIndex, h)
      old == thr[p]
      last == IF old.pc = "done" /\ old.saved /\ faults = 0
                   /\ now - old.savedAt <= MaxAge
                THEN [valid |-> TRUE, req |-> old.req, buf |-> old.buf,
                      calls |-> old.calls, cold |-> old.cold,
                      saveQuiet |-> old.saveQuiet, gen |-> old.gen]
                ELSE NoPrev
      base == [Idle EXCEPT !.req = r, !.hash = h,
                           !.stale = req.cache /\ \E e \in E : now - e.timestamp > MaxAge,
                           !.cold = /\ req.cache
                                    /\ E = {}
                                    /\ \A t \in Tasks : Resting(thr[t]) \/ thr[t].hash # h,
                           !.quiet = OthersIdle(p, Threads),
                           !.after = last,
                           !.gen = life.gen,
                           !.ready = \A t \in Tasks : thr[t].pc # "init_read"]
      me == IF g.kind = "read" THEN [base EXCEPT !.pc = "read", !.path = g.path]
            ELSE callApi(base, req)
  IN /\ Resting(old)
     /\ started < MaxCalls
     /\ started' = started + 1
     /\ g.task.pc # "idle" => FreeTask
     /\ thr' = Spawn([thr EXCEPT ![p] = me], g.task)
     /\ cacheIndex' = g.idx
     /\ UNCHANGED <<files, indexFile, now, faults, healed, indexWriteFailed>>
     /\ UNCHANGED <<life, hookVars, textVars>>

\* One caller makes its calls one after the other: each begins when the last
\* one has returned (deleteEntry tasks may still be running).
GenStartSeq(r) == GenStart(SeqProc, r)

\* readFile(entry.filePath) settles: a hit, or the catch and the miss path.
ReadDone(p) ==
  LET me == thr[p]
      F == FileAt(files, me.path)
      f == CHOOSE x \in F : TRUE
      c == getAudioCatch(cacheIndex, files, me.hash)
  IN /\ me.pc = "read"
     /\ \E ok \in BOOLEAN :
          /\ ok => F # {}
          /\ (~ok /\ F # {}) => CanFail
          /\ IF ok
               THEN /\ thr' = ProcStep(p, [thr EXCEPT ![p] =
                         [me EXCEPT !.pc = "done", !.res = Some(f.buf), !.hit = TRUE]])
                    /\ UNCHANGED <<cacheIndex, faults, healed>>
               ELSE /\ c.task.pc # "idle" => FreeTask
                    /\ thr' = ProcStep(p, Spawn([thr EXCEPT ![p] =
                         IF c.kind = "miss" THEN callApi(me, Requests[me.req])
                         ELSE [me EXCEPT !.pc = "threw"]], c.task))
                    /\ cacheIndex' = c.idx
                    /\ faults' = IF F # {} THEN faults + 1 ELSE faults
                    /\ healed' = healed \cup {me.hash}
     /\ UNCHANGED <<files, indexFile, now, indexWriteFailed>>
     /\ UNCHANGED <<started, life, hookVars, textVars>>

\* ctx.http.post settles: decoding, validation and the call of saveAudio up
\* to its writeFile.
HttpDone(p) ==
  LET me == thr[p]
      req == Requests[me.req]
  IN /\ me.pc = "http"
     /\ \E resp \in Responses(req) :
          LET d == IF resp.kind = "reject" THEN Null ELSE decodeResponse(resp)
              a == saveAudioArgs(req.text, req.voiceId, req.config, d.buf)
              h == calculateHash(a.text, a.voiceId, a.params)
              got == [me EXCEPT !.resp = resp]
          IN thr' = ProcStep(p, [thr EXCEPT ![p] =
               IF d.null THEN [got EXCEPT !.pc = "done", !.res = Null]
               ELSE IF req.cache /\ Len(d.buf) > 0
                 THEN [got EXCEPT !.pc = "aw_open", !.buf = a.buffer, !.hash = h,
                                  !.path = FilePath(h),
                                  !.saveQuiet = OthersIdle(p, Threads)]
                 ELSE [got EXCEPT !.pc = "done", !.buf = d.buf, !.res = Some(d.buf)]])
     /\ UNCHANGED <<cacheIndex, files, indexFile, now, faults, healed,
                    indexWriteFailed>>
     /\ UNCHANGED <<started, life, hookVars, textVars>>

\* writeFile(filePath, buffer), first half: open with 'w'.
AudioOpen(p) ==
  LET me == thr[p]
  IN /\ me.pc = "aw_open"
     /\ \E ok \in BOOLEAN :
          /\ ~ok => CanFail
          /\ IF ok
               THEN /\ files' = RemoveFile(files, me.path) \cup
                                  {[path |-> me.path, buf |-> <<>>]}
                    /\ thr' = ProcStep(p, [thr EXCEPT ![p] = [me EXCEPT !.pc = "aw_data"]])
                    /\ UNCHANGED faults
               ELSE /\ thr' = ProcStep(p, [thr EXCEPT ![p] = afterSaveAudio(me, saveAudioCatch)])
                    /\ faults' = faults + 1
                    /\ UNCHANGED files
     /\ UNCHANGED <<cacheIndex, indexFile, now, healed, indexWriteFailed>>
     /\ UNCHANGED <<started, life, hookVars, textVars>>

\* writeFile(filePath, buffer), second half: the bytes are written; then
\* cacheIndex.set, and saveIndex up to its writeFile.
AudioData(p) ==
  LET me == thr[p]
      F == FileAt(files, me.path)
      f == CHOOSE x \in F : TRUE
      idx2 == IndexSet(cacheIndex, saveAudioEntry(me.hash, me.path, now))
  IN /\ me.pc = "aw_data"
     /\ \E ok \in BOOLEAN :
          /\ ~ok => CanFail
          /\ IF ok
               THEN /\ files' = IF F = {} THEN files
                                ELSE RemoveFile(files, me.path) \cup
                                       {[path |-> me.path, buf |-> Overlay(me.buf, f.buf)]}
                    /\ cacheIndex' = idx2
                    /\ thr' = ProcStep(p, [thr EXCEPT ![p] =
                         [me EXCEPT !.pc = "iw_open", !.snap = idx2, !.saved = TRUE,
                                    !.savedAt = now]])
                    /\ healed' = healed \ {me.hash}
                    /\ UNCHANGED faults
               ELSE /\ thr' = ProcStep(p, [thr EXCEPT ![p] = afterSaveAudio(me, saveAudioCatch)])
                    /\ faults' = faults + 1
                    /\ UNCHANGED <<files, cacheIndex, healed>>
     /\ UNCHANGED <<indexFile, now, indexWriteFailed>>
     /\ UNCHANGED <<started, life, hookVars, textVars>>

\* saveIndex has returned in coroutine t: a caller goes through prune() and
\* back into generateSpeech, a deleteEntry task ends.
afterSaveIndex(t, me, how) ==
  IF t \in Procs
    THEN afterSaveAudio(me, IF how = "return" THEN "return" ELSE saveAudioCatch)
    ELSE IF how = "return" THEN Idle ELSE [me EXCEPT !.pc = "threw"]

SettleIndex(t, T) == IF t \in Procs THEN ProcStep(t, T) ELSE TaskStep(T)

\* writeFile(indexFile, data), first half: open with 'w'.
IndexOpen(t) ==
  LET me == thr[t]
  IN /\ me.pc = "iw_open"
     /\ \E ok \in BOOLEAN :
          /\ ~ok => CanFail
          /\ IF ok
               THEN /\ indexFile' = [state |-> "bad", data |-> {}, len |-> 0]
                    /\ thr' = SettleIndex(t, [thr EXCEPT ![t] = [me EXCEPT !.pc = "iw_data"]])
                    /\ UNCHANGED <<faults, indexWriteFailed, files>>
               ELSE /\ thr' = SettleIndex(t, [thr EXCEPT ![t] =
                                     afterSaveIndex(t, me, saveIndexCatch)])
                    /\ files' = IF t \in Procs THEN prune(files) ELSE files
                    /\ faults' = faults + 1
                    /\ indexWriteFailed' = TRUE
                    /\ UNCHANGED indexFile
     /\ UNCHANGED <<cacheIndex, now, healed>>
     /\ UNCHANGED <<started, life, hookVars, textVars>>

\* writeFile(indexFile, data), second half: the text is written.
IndexData(t) ==
  LET me == thr[t]
  IN /\ me.pc = "iw_data"
     /\ \E ok \in BOOLEAN :
          /\ ~ok => CanFail
          /\ IF ok
               THEN /\ indexFile' = IndexOverlay(me.snap, indexFile)
                    /\ thr' = SettleIndex(t, [thr EXCEPT ![t] = afterSaveIndex(t, me, "return")])
                    /\ UNCHANGED <<faults, indexWriteFailed>>
               ELSE /\ thr' = SettleIndex(t, [thr EXCEPT ![t] =
                                     afterSaveIndex(t, me, saveIndexCatch)])
                    /\ faults' = faults + 1
                    /\ indexWriteFailed' = TRUE
                    /\ UNCHANGED indexFile
     /\ files' = IF t \in Procs THEN prune(files) ELSE files
     /\ UNCHANGED <<cacheIndex, now, healed>>
     /\ UNCHANGED <<started, life, hookVars, textVars>>

\* deleteEntry: unlink(entry.filePath) settles (an error is ignored); then
\* cacheIndex.delete, and saveIndex up to its writeFile.
Unlink(t) ==
  LET me == thr[t]
      d == deleteEntryFinish(cacheIndex, me.hash)
  IN /\ me.pc = "unlink"
     /\ \E ok \in BOOLEAN :
          /\ ~ok => CanFail
          /\ files' = IF ok THEN RemoveFile(files, me.path) ELSE files
          /\ faults' = IF ok THEN faults ELSE faults + 1
     /\ cacheIndex' = d.idx
     /\ thr' = TaskStep([thr EXCEPT ![t] = d.task])
     /\ UNCHANGED <<indexFile, now, healed, indexWriteFailed>>
     /\ UNCHANGED <<started, life, hookVars, textVars>>

\* Something outside the plugin removes an audio file from the directory.
EnvRemoveFile ==
  /\ CanFail
  /\ \E f \in files : files' = files \ {f}
  /\ faults' = faults + 1
  /\ UNCHANGED <<cacheIndex, indexFile, now, thr, healed, indexWriteFailed>>
  /\ UNCHANGED <<started, life, hookVars, textVars>>

\* The clock advances.
Tick ==
  /\ now < MaxTime
  /\ now' = now + 1
  /\ UNCHANGED <<cacheIndex, files, indexFile, thr, faults, healed,
                 indexWriteFailed>>
  /\ UNCHANGED <<started, life, hookVars, textVars>>

Next ==
  \/ \E p \in Procs, r \in ReqIds : GenStart(p, r)
  \/ \E p \in Procs : ReadDone(p)
  \/ \E p \in Procs : HttpDone(p)
  \/ \E p \in Procs : AudioOpen(p)
  \/ \E p \in Procs : AudioData(p)
  \/ \E t \in Threads : IndexOpen(t)
  \/ \E t \in Threads : IndexData(t)
  \/ \E t \in Tasks : Unlink(t)
  \/ EnvRemoveFile
  \/ Tick

Spec == Init /\ [][Next]_vars

NextSeq ==
  \/ \E r \in SeqReqIds : GenStartSeq(r)
  \/ \E p \in Procs : ReadDone(p)
  \/ \E p \in Procs : HttpDone(p)
  \/ \E p \in Procs : AudioOpen(p)
  \/ \E p \in Procs : AudioData(p)
  \/ \E t \in Threads : IndexOpen(t)
  \/ \E t \in Threads : IndexData(t)
  \/ \E t \in Tasks : Unlink(t)
  \/ EnvRemoveFile
  \/ Tick

SpecSeq == Init /\ [][NextSeq]_vars

(***************************************************************************)
(* The life of the cache manager: construction and initialize() in apply,  *)
(* initialize() again on 'ready', dispose() on 'dispose'.                  *)
(***************************************************************************)
MaxManagers == 2   \* managers constructed on the directory in one behaviour

\* The Map after json.forEach(entry => this.cacheIndex.set(entry.hash, entry)).
SetAll(idx, data) == {x \in idx : \A e \in data : e.hash # x.hash} \cup data

\* Faulty variant of initializeLoad: the persisted index is never loaded.
initializeSkip(idx, file, ok) == idx

\* initialize after its readFile has settled: the entries of a parsed array
\* are set into the Map; a failed read or text that does not parse (an empty
\* or half-written file included) lands in the catch, which clears the Map.
initializeLoad(idx, file, ok) ==
  IF ok /\ file.state = "ok" THEN SetAll(idx, file.data) ELSE {}

\* initialize up to its readFile: nothing to await when index.json is absent.
initialize(file, again) ==
  IF file.state = "absent" THEN Idle
  ELSE [Idle EXCEPT !.pc = "init_read", !.second = again]

\* The plugin is loaded anew once the old one has come to rest: apply
\* constructs a manager on the same directory and calls initialize without
\* awaiting it.
Restart ==
  LET task == initialize(indexFile, FALSE)
  IN /\ Quiescent
     /\ started > 0
     /\ life.gen < MaxManagers
     /\ task.pc # "idle" => FreeTask
     /\ cacheIndex' = {}
     /\ life' = [FirstLife EXCEPT !.gen = life.gen + 1]
     /\ thr' = Spawn(thr, task)
     /\ UNCHANGED <<files, indexFile, now, faults, started, healed, indexWriteFailed>>
     /\ UNCHANGED <<hookVars, textVars>>

\* 'ready': initialize is called a second time on the same manager.
Reinitialize ==
  LET task == initialize(indexFile, TRUE)
  IN /\ task.pc # "idle"
     /\ FreeTask
     /\ thr' = Spawn(thr, task)
     /\ UNCHANGED <<cacheIndex, files, indexFile, now, faults, started, healed,
                    indexWriteFailed, life>>
     /\ UNCHANGED <<hookVars, textVars>>

\* readFile(this.indexFile) settles in initialize.
InitDone(t) ==
  /\ thr[t].pc = "init_read"
  /\ \E ok \in BOOLEAN :
       /\ ~ok => CanFail
       /\ cacheIndex' = initializeLoad(cacheIndex, indexFile, ok)
       /\ faults' = IF ok THEN faults ELSE faults + 1
  /\ thr' = [x \in Threads |->
               IF x = t THEN Idle
               ELSE IF Resting(thr[x]) THEN thr[x] ELSE Disturb(thr[x])]
  /\ UNCHANGED <<files, indexFile, now, started, healed, indexWriteFailed, life>>
  /\ UNCHANGED <<hookVars, textVars>>

\* dispose(): an empty body.
dispose(idx) == idx

\* 'dispose': the manager is disposed and dropped from ctx.state; the calls
\* in flight keep their reference to it.
Dispose ==
  /\ ~life.disposed
  /\ started > 0
  /\ cacheIndex' = dispose(cacheIndex)
  /\ life' = [life EXCEPT !.disposed = TRUE,
                          !.early = {p \in Procs : thr[p].pc \in {"read", "http"}}]
  /\ UNCHANGED <<files, indexFile, now, thr, faults, started, healed, indexWriteFailed>>
  /\ UNCHANGED <<hookVars, textVars>>

\* The hook and the commands are registered on ctx and go with it: once the
\* plugin is disposed no new call of generateSpeech begins.
GenStartLife(r) == ~life.disposed /\ GenStartSeq(r)

NextLife ==
  \/ \E r \in SeqReqIds : GenStartLife(r)
  \/ \E p \in Procs : ReadDone(p)
  \/ \E p \in Procs : HttpDone(p)
  \/ \E p \in Procs : AudioOpen(p)
  \/ \E p \in Procs : AudioData(p)
  \/ \E t \in Threads : IndexOpen(t)
  \/ \E t \in Threads : IndexData(t)
  \/ \E t \in Tasks : Unlink(t)
  \/ \E t \in Tasks : InitDone(t)
  \/ Restart
  \/ Reinitialize
  \/ Dispose
  \/ EnvRemoveFile
  \/ Tick

SpecLife == Init /\ [][NextLife]_vars

(***************************************************************************)
(* Text.  A string is a sequence of one-character strings; the characters  *)
(* outside ASCII are written by code point: u3002 is the ideographic full  *)
(* stop, uFF01 and uFF1F the fullwidth ! and ?, uFF08 and uFF09 the        *)
(* fullwidth parentheses.                                                  *)
(***************************************************************************)
Whitespace == {" ", "\n", "\t"}

\* The class [。！？.!?\n] of the two split() calls.
SentenceEnd == {"u3002", "uFF01", "uFF1F", ".", "!", "?", "\n"}

\* String.prototype.indexOf(pat, from), counting from 1; 0 when absent.
Find(s, pat, from) ==
  LET I == {i \in from..(Len(s) - Len(pat) + 1) : SubSeq(s, i, i + Len(pat) - 1) = pat}
  IN IF I = {} THEN 0 ELSE CHOOSE i \in I : \A j \in I : i <= j

includes(s, pat) == Find(s, pat, 1) # 0

\* s.replace(/open[^]*?close/g, ''): from the left, each `open` up to the
\* first `close` after it is removed.
RECURSIVE RemoveSpans(_, _, _)
RemoveSpans(s, open, close) ==
  LET i == Find(s, open, 1)
      j == IF i = 0 THEN 0 ELSE Find(s, close, i + Len(open))
  IN IF i = 0 \/ j = 0 THEN s
     ELSE SubSeq(s, 1, i - 1) \o
          RemoveSpans(SubSeq(s, j + Len(close), Len(s)), open, close)

\* s.replace(/pat/g, with) for a literal pat.
RECURSIVE ReplaceAll(_, _, _)
ReplaceAll(s, pat, with) ==
  LET i == Find(s, pat, 1)
  IN IF i = 0 THEN s
     ELSE SubSeq(s, 1, i - 1) \o with \o
          ReplaceAll(SubSeq(s, i + Len(pat), Len(s)), pat, with)

RECURSIVE DropLeading(_, _)
DropLeading(s, C) ==
  IF s # <<>> /\ s[1] \in C THEN DropLeading(Tail(s), C) ELSE s

RECURSIVE DropTrailing(_, _)
DropTrailing(s, C) ==
  IF s # <<>> /\ s[Len(s)] \in C THEN DropTrailing(SubSeq(s, 1, Len(s) - 1), C)
  ELSE s

\* String.prototype.trim()
trim(s) == DropTrailing(DropLeading(s, Whitespace), Whitespace)

\* s.replace(/\s+/g, ' ')
RECURSIVE CollapseWhitespace(_)
CollapseWhitespace(s) ==
  IF s = <<>> THEN <<>>
  ELSE IF s[1] \in Whitespace
    THEN <<" ">> \o CollapseWhitespace(DropLeading(s, Whitespace))
    ELSE <<s[1]>> \o CollapseWhitespace(Tail(s))

\* String.prototype.toUpperCase(), on the letters the replies use.
LowerCase == <<"a", "b", "c", "d", "e", "l", "m", "n", "o", "p", "t", "u", "y">>
UpperCase == <<"A", "B", "C", "D", "E", "L", "M", "N", "O", "P", "T", "U", "Y">>
toUpperCase(s) ==
  [i \in 1..Len(s) |->
     IF \E k \in 1..Len(LowerCase) : LowerCase[k] = s[i]
       THEN UpperCase[CHOOSE k \in 1..Len(LowerCase) : LowerCase[k] = s[i]]
       ELSE s[i]]

\* h.unescape of koishi: the entities of < > and & become the characters.
unescape(s) ==
  ReplaceAll(ReplaceAll(ReplaceAll(s, <<"&", "l", "t", ";">>, <<"<">>),
                        <<"&", "g", "t", ";">>, <<">">>),
             <<"&", "a", "m", "p", ";">>, <<"&">>)

\* cleanModelOutput: tags, <|im_start|>...<|im_end|> blocks, bracketed and
\* starred asides and ** go, whitespace is collapsed and trimmed, in the
\* order of the replace calls.
cleanModelOutput(text) ==
  IF text = <<>> THEN <<>>
  ELSE LET t0 == RemoveSpans(text, <<"<">>, <<">">>)
           t1 == RemoveSpans(t0, <<"<", "|", "i", "m", "_", "s", "t", "a", "r", "t", "|", ">">>,
                             <<"<", "|", "i", "m", "_", "e", "n", "d", "|", ">">>)
           t2 == RemoveSpans(t1, <<"uFF08">>, <<"uFF09">>)
           t3 == RemoveSpans(t2, <<"(">>, <<")">>)
           t4 == RemoveSpans(t3, <<"*">>, <<"*">>)
           t5 == ReplaceAll(t4, <<"*", "*">>, <<>>)
       IN trim(CollapseWhitespace(t5))

\* text.split(/[。！？.!?\n]+/): the pieces between runs of sentence ends.
RECURSIVE SplitSentences(_, _)
SplitSentences(s, piece) ==
  IF s = <<>> THEN <<piece>>
  ELSE IF s[1] \in SentenceEnd
    THEN <<piece>> \o SplitSentences(DropLeading(s, SentenceEnd), <<>>)
    ELSE SplitSentences(Tail(s), Append(piece, s[1]))

NonBlankAlways(s) == TRUE

NonBlank(s) == Len(trim(s)) > 0

\* .filter(s => s.trim().length > 0)
Sentences(text) == SelectSeq(SplitSentences(text, <<>>), NonBlank)

\* splitTextIntoSegments
splitTextIntoSegmentsUntrimmed(text) ==
  IF text = <<>> THEN <<>> ELSE Sentences(text)

splitTextIntoSegments(text) ==
  IF text = <<>> THEN <<>>
  ELSE LET sentences == Sentences(text)
       IN [i \in 1..Len(sentences) |-> trim(sentences[i])]

(***************************************************************************)
(* The before-send hook (apply, lib/index.js) and the two selectors.       *)
(***************************************************************************)
\* config.autoSpeech.minLength ?? 2
MinLength == 2

MAX_RETRIES == 2

\* The message of the end-to-end scenario, by code point: U+8001 U+5E08
\* U+8BF4 U+FF1A U+201C U+4F60 U+597D U+554A U+3002 U+201D U+FF08 U+7B11
\* U+FF09.
ScenarioText ==
  <<"u8001", "u5E08", "u8BF4", "uFF1A", "u201C", "u4F60", "u597D", "u554A", "u3002",
    "u201D", "uFF08", "u7B11", "uFF09">>

\* The outgoing messages (session.content) the hook is given.
Messages ==
  { <<>>,
    <<"<", "a", "u", "d", "i", "o", "/", ">">>,
    <<"<", "a", "u", "d", "i", "o", "/", ">", "a", "b">>,
    <<"[", "C", "Q", ":", "r", "e", "c", "o", "r", "d", "]", "a", "b">>,
    <<"a">>,
    <<"a", "b">>,
    <<"a", "b", ".", "c", "d">>,
    <<"a", ".", "b", ".", "c">>,
    <<"(", "x", ")", "a", "b", "u3002", " ", "c", "d", "!">>,
    ScenarioText }

\* config.autoSpeech as far as the hook reads it; openaiLike: base URL, API
\* key and model of the filter are all configured.
Configs ==
  [selectorMode : {"full", "ai_sentence", "openai_filter"},
   sendMode : {"voice_only", "mixed", "text_and_voice"},
   onlyChatLuna : BOOLEAN,
   openaiLike : BOOLEAN]

\* config.autoSpeech.chatLunaBotId, and the bots that send.
chatLunaBotId == "luna"
SelfIds == {"luna", "other"}

\* resp.choices[0].message.content of the filter endpoint (empty: absent).
FilterReplies ==
  { <<>>,
    <<"E", "M", "P", "T", "Y">>,
    <<"n", "o", "n", "e">>,
    <<"N", "u", "l", "l">>,
    <<"c">>,
    <<" ", "c", "d", " ">> }

\* What chatluna.chat resolves with.
ChatReplies == { <<>>, <<"c">>, <<"c", "d", ".">> }

\* generateSpeech's audio for a text: one chunk that names the text.
Rendering(text) == <<text>>

Pending == [state |-> "pending", buf |-> <<>>]
Failed == [state |-> "null", buf |-> <<>>]
Resolved(b) == [state |-> "buffer", buf |-> b]

\* The length gates: text.length < (config.autoSpeech.minLength ?? 2).
belowMinLengthNever(text) == FALSE

belowMinLength(text) == Len(text) < MinLength

\* selectSpeechTextByOpenAI before its POST: null when the filter is not
\* fully configured.
openaiLikeConfigured(cfg) == cfg.openaiLike

\* selectSpeechTextByOpenAI after its POST: the reply's content, or null
\* (Null) when it is empty, EMPTY or NONE, and from the catch.
selectSpeechTextByOpenAI(outcome, reply) ==
  LET content == trim(reply)
  IN IF outcome = "reject" THEN Null
     ELSE IF content = <<>> THEN Null
     ELSE IF toUpperCase(content) = <<"E", "M", "P", "T", "Y">>
             \/ toUpperCase(content) = <<"N", "O", "N", "E">> THEN Null
     ELSE Some(content)

\* selectSpeechSentenceByAI from a reply of the model on.
selectSpeechSentenceByAI(reply) ==
  LET selected == trim(reply)
      cleanedSelected ==
        trim(DropTrailing(DropLeading(selected, SentenceEnd \cup Whitespace),
                          SentenceEnd \cup Whitespace))
  IN IF selected = <<>> \/ Len(selected) < MinLength THEN Null
     ELSE IF Len(cleanedSelected) >= MinLength THEN Some(cleanedSelected)
     ELSE Null

\* selectSpeechSentenceByAI's catch: another attempt while attempt < MAX_RETRIES.
retryOnceMore(attempt) == attempt <= MAX_RETRIES

retryAgain(attempt) == attempt < MAX_RETRIES

\* The guard against the hook's own messages, left out.
hasAudioNever(content) == FALSE

\* session.content.includes('<audio') || session.content.includes('[CQ:record')
hasAudio(content) ==
  \/ includes(content, <<"<", "a", "u", "d", "i", "o">>)
  \/ includes(content, <<"[", "C", "Q", ":", "r", "e", "c", "o", "r", "d">>)

\* makeAudioElement(buffer, format).toString(): the element h('audio', { src })
\* as message content; "data" stands for the base64 data URL of the buffer.
audioElemText(buffer) ==
  <<"<", "a", "u", "d", "i", "o", " ", "s", "r", "c", "=", "\"", "data", "\"", "/", ">">>

\* The hook on the message that its own sendMessage puts out: where it ends,
\* "Synth" when it gets as far as selecting and synthesizing.
nestedStage(content, cfg, selfId) ==
  IF content = <<>> THEN "Ignored"
  ELSE IF hasAudio(content) THEN "Ignored"
  ELSE IF cfg.onlyChatLuna /\ selfId # chatLunaBotId THEN "Ignored"
  ELSE IF belowMinLength(cleanModelOutput(unescape(content))) THEN "TooShort"
  ELSE "Synth"

\* The hook returns; the stage it ends in is noted.
hookReturn(h, o, stage) ==
  [hook |-> [h EXCEPT !.pc = "done", !.stages = Append(@, stage)], out |-> o]

\* await Promise.all(promises): resolves once none is pending, with the
\* results in the order of the promises, whatever the order they settled in.
anySettled(audioBuffers) == \E k \in 1..Len(audioBuffers) : audioBuffers[k] # Pending

allSettled(audioBuffers) == \A k \in 1..Len(audioBuffers) : audioBuffers[k] # Pending

PromiseAllByArrival(audioBuffers, order) ==
  [k \in 1..Len(order) |-> audioBuffers[order[k]]]

PromiseAll(audioBuffers, order) == audioBuffers

\* 2.5 up to the await of Promise.all: segmentation and one generateSpeech
\* call per segment, all started at once.
synthesize(h, o, targetText) ==
  LET segments == splitTextIntoSegments(targetText)
      h1 == [h EXCEPT !.targetText = targetText, !.segments = segments,
                      !.stages = Append(@, "Segmented")]
  IN IF Len(segments) = 0 THEN hookReturn(h1, o, "Done")
     ELSE [hook |-> [h1 EXCEPT !.pc = "synth",
                               !.audioBuffers = [i \in 1..Len(segments) |-> Pending]],
           out |-> [o EXCEPT !.genCalls = @ \o segments]]

\* audioBuffers.filter(b => b !== null)
IsSettled(b) == TRUE

IsBuffer(b) == b.state = "buffer"

RECURSIVE Concat(_)
Concat(bs) == IF bs = <<>> THEN <<>> ELSE Head(bs).buf \o Concat(Tail(bs))

\* case 'voice_only': session.content = audioElem.toString()
voiceOnly(content, audioElem) == [text |-> <<>>, audio |-> <<audioElem>>]

\* case 'mixed': session.content += audioElem.toString()
mixedReplaced(content, audioElem) == [text |-> <<>>, audio |-> <<audioElem>>]

mixed(content, audioElem) == [content EXCEPT !.audio = Append(@, audioElem)]

\* The catch of 2.5: the error is logged, the hook returns.
hookRethrow == "throw"

hookCatch == "return"

\* 2.5 after Promise.all: the failed segments are dropped, the rest is
\* concatenated and goes out in the way sendMode says.
deliver(h, o) ==
  LET validBuffers == SelectSeq(PromiseAll(h.audioBuffers, h.order), IsBuffer)
      finalBuffer == Concat(validBuffers)
      hf == [h EXCEPT !.finalBuffer = finalBuffer]
  IN IF Len(validBuffers) = 0 THEN hookReturn(h, o, "Done")
     ELSE CASE h.cfg.sendMode = "voice_only" ->
                 hookReturn([hf EXCEPT !.content = voiceOnly(@, finalBuffer)], o, "Done")
            [] h.cfg.sendMode = "mixed" ->
                 hookReturn([hf EXCEPT !.content = mixed(@, finalBuffer)], o, "Done")
            [] OTHER ->
                 IF h.channelId
                   THEN [hook |-> [hf EXCEPT !.pc = "send", !.sending = finalBuffer],
                         out |-> o]
                   ELSE hookReturn(hf, o, "Done")

\* The ai_sentence branch once selectSpeechSentenceByAI has returned: with
\* nothing usable the whole cleaned text is spoken.
afterSentenceByAISuppress(h, o, aiSelected) ==
  LET hs == [h EXCEPT !.selector = "returned", !.selected = aiSelected]
  IN IF ~aiSelected.null /\ ~belowMinLength(aiSelected.buf)
       THEN synthesize([hs EXCEPT !.stages = Append(@, "Selected")], o, aiSelected.buf)
       ELSE hookReturn(hs, o, "Suppressed")

afterSentenceByAI(h, o, aiSelected) ==
  LET hs == [h EXCEPT !.selector = "returned", !.selected = aiSelected,
                      !.stages = Append(@, "Selected")]
  IN IF ~aiSelected.null /\ ~belowMinLength(aiSelected.buf)
       THEN synthesize(hs, o, aiSelected.buf)
       ELSE synthesize(hs, o, h.cleanedText)

\* The openai_filter branch once selectSpeechTextByOpenAI has returned: with
\* null or a text too short the hook returns.
afterTextByOpenAIFallback(h, o, selected) ==
  LET hs == [h EXCEPT !.selector = "returned", !.selected = selected,
                      !.stages = Append(@, "Suppressed")]
  IN synthesize(hs, o, h.cleanedText)

afterTextByOpenAI(h, o, selected) ==
  LET hs == [h EXCEPT !.selector = "returned", !.selected = selected]
  IN IF selected.null \/ selected.buf = <<>> \/ belowMinLength(trim(selected.buf))
       THEN hookReturn(hs, o, "Suppressed")
       ELSE synthesize([hs EXCEPT !.stages = Append(@, "Selected")], o, trim(selected.buf))

\* A message is about to be sent: the hook runs up to its first await.
HookStart(content, cfg, selfId, channelId, chatluna) ==
  LET rawText == unescape(content)
      cleanedText == cleanModelOutput(rawText)
      h == [NoHook EXCEPT !.cfg = cfg, !.selfId = selfId, !.channelId = channelId,
                          !.chatluna = chatluna, !.original = content,
                          !.content = [text |-> content, audio |-> <<>>],
                          !.stages = <<"Received">>]
      hc == [h EXCEPT !.cleanedText = cleanedText, !.targetText = cleanedText,
                      !.stages = Append(@, "Cleaned")]
      r == IF content = <<>> THEN hookReturn(h, out, "Ignored")
           ELSE IF hasAudio(content) THEN hookReturn(h, out, "Ignored")
           ELSE IF cfg.onlyChatLuna /\ selfId # chatLunaBotId
             THEN hookReturn(h, out, "Ignored")
           ELSE IF belowMinLength(cleanedText) THEN hookReturn(hc, out, "TooShort")
           ELSE CASE cfg.selectorMode = "ai_sentence" ->
                       IF Len(Sentences(cleanedText)) <= 1
                         THEN afterSentenceByAI(hc, out, Null)
                       ELSE IF ~chatluna THEN afterSentenceByAI(hc, out, Null)
                       ELSE [hook |-> [hc EXCEPT !.pc = "chat", !.selector = "pending"],
                             out |-> [out EXCEPT !.chatCalls = @ + 1]]
                  [] cfg.selectorMode = "openai_filter" ->
                       IF ~openaiLikeConfigured(cfg)
                         THEN afterTextByOpenAI([hc EXCEPT !.filter = "unconfigured"], out, Null)
                         ELSE [hook |-> [hc EXCEPT !.pc = "filter", !.selector = "pending"],
                               out |-> [out EXCEPT !.filterPosts = @ + 1]]
                  [] OTHER ->
                       synthesize([hc EXCEPT !.stages = Append(@, "Selected")], out,
                                  cleanedText)
  IN /\ hook.pc = "idle"
     /\ hook' = r.hook
     /\ out' = r.out
     /\ UNCHANGED <<cacheVars, textVars>>

\* chatluna.chat settles: a reply, or a throw and the retry loop.
ChatDone ==
  /\ hook.pc = "chat"
  /\ \/ \E reply \in ChatReplies :
          LET r == afterSentenceByAI([hook EXCEPT !.reply = reply], out,
                                     selectSpeechSentenceByAI(reply))
          IN hook' = r.hook /\ out' = r.out
     \/ LET o == [out EXCEPT !.chatThrows = @ + 1]
        IN IF retryAgain(hook.attempt)
             THEN /\ hook' = [hook EXCEPT !.pc = "sleep"]
                  /\ out' = [o EXCEPT !.sleeps = @ + 1]
             ELSE LET r == afterSentenceByAI(hook, o, Null)
                  IN hook' = r.hook /\ out' = r.out
  /\ UNCHANGED <<cacheVars, textVars>>

\* sleep(RETRY_DELAY) is over: the next attempt.
SleepDone ==
  /\ hook.pc = "sleep"
  /\ hook' = [hook EXCEPT !.pc = "chat", !.attempt = @ + 1]
  /\ out' = [out EXCEPT !.chatCalls = @ + 1]
  /\ UNCHANGED <<cacheVars, textVars>>

\* The POST to /v1/chat/completions settles: a reply, or a rejection (an
\* HTTP error or the 15 s timeout).
FilterDone ==
  /\ hook.pc = "filter"
  /\ \/ \E reply \in FilterReplies :
          LET r == afterTextByOpenAI([hook EXCEPT !.filter = "reply", !.reply = reply],
                                     out, selectSpeechTextByOpenAI("reply", reply))
          IN hook' = r.hook /\ out' = r.out
     \/ LET r == afterTextByOpenAI([hook EXCEPT !.filter = "reject"], out,
                                   selectSpeechTextByOpenAI("reject", <<>>))
        IN hook' = r.hook /\ out' = r.out
  /\ UNCHANGED <<cacheVars, textVars>>

\* One generateSpeech call settles, with audio or with null; once none is
\* pending Promise.all resolves and the hook goes on.
SegmentDone(i) ==
  /\ hook.pc = "synth"
  /\ hook.audioBuffers[i] = Pending
  /\ \E b \in {Resolved(Rendering(hook.segments[i])), Failed} :
       LET h == [hook EXCEPT !.audioBuffers[i] = b, !.order = Append(@, i)]
           r == IF allSettled(h.audioBuffers) THEN deliver(h, out)
                ELSE [hook |-> h, out |-> out]
       IN hook' = r.hook /\ out' = r.out
  /\ UNCHANGED <<cacheVars, textVars>>

\* session.bot.sendMessage settles: the audio message has gone through the
\* before-send hook itself; a rejection is caught and logged.
SendDone ==
  /\ hook.pc = "send"
  /\ \E ok \in BOOLEAN :
       /\ out' = [out EXCEPT
                   !.nested = Append(@, nestedStage(audioElemText(hook.sending),
                                                    hook.cfg, hook.selfId)),
                   !.sent = IF ok THEN Append(@, hook.sending) ELSE @]
       /\ hook' = [hook EXCEPT !.pc = IF ok \/ hookCatch = "return" THEN "done" ELSE "threw",
                               !.sendOk = IF ok THEN "ok" ELSE "failed",
                               !.stages = Append(@, "Done")]
  /\ UNCHANGED <<cacheVars, textVars>>

NextHook ==
  \/ \E content \in Messages, cfg \in Configs, selfId \in SelfIds,
        channelId \in BOOLEAN, chatluna \in BOOLEAN :
       HookStart(content, cfg, selfId, channelId, chatluna)
  \/ ChatDone
  \/ SleepDone
  \/ FilterDone
  \/ \E i \in 1..Len(hook.audioBuffers) : SegmentDone(i)
  \/ SendDone

SpecHook == Init /\ [][NextHook]_vars

\* The hook in ai_sentence mode for the messages of the ChatLuna bot, when
\* the promises it awaits in selectSpeechSentenceByAI settle:
\* chatluna.chat (called with timeout: CHATLUNA_TIMEOUT) resolves or rejects,
\* and the timer of sleep(RETRY_DELAY) fires.
SentenceConfigs ==
  {cfg \in Configs : cfg.selectorMode = "ai_sentence" /\ ~cfg.onlyChatLuna}

NextHookLive ==
  \/ \E content \in Messages, cfg \in SentenceConfigs, channelId \in BOOLEAN,
        chatluna \in BOOLEAN :
       HookStart(content, cfg, chatLunaBotId, channelId, chatluna)
  \/ ChatDone
  \/ SleepDone
  \/ \E i \in 1..Len(hook.audioBuffers) : SegmentDone(i)
  \/ SendDone

SpecHookLive ==
  Init /\ [][NextHookLive]_vars /\ WF_vars(ChatDone) /\ WF_vars(SleepDone)

\* The hook when the remote ends may stay silent.  The filter POST carries
\* timeout: 15000 and the model call timeout: CHATLUNA_TIMEOUT, so each
\* settles; the sleep is a timer; sendMessage is taken to settle.  The POST of
\* generateSpeech carries no timeout: nothing makes a segment settle.
SpecHookStall ==
  /\ Init /\ [][NextHook]_vars
  /\ WF_vars(ChatDone) /\ WF_vars(SleepDone) /\ WF_vars(FilterDone) /\ WF_vars(SendDone)

(***************************************************************************)
(* The text functions on their own: a text is drawn, then cleaned, or      *)
(* segmented and its segments segmented again.                             *)
(***************************************************************************)
MaxBracketLen == 5
MaxSentenceLen == 5
MaxBlockPieces == 3

\* All sequences over S of length at most n.
SeqsUpTo(S, n) == UNION {[1..k -> S] : k \in 0..n}

RECURSIVE Flatten(_)
Flatten(ss) == IF ss = <<>> THEN <<>> ELSE Head(ss) \o Flatten(Tail(ss))

ImStart == <<"<", "|", "i", "m", "_", "s", "t", "a", "r", "t", "|", ">">>
ImEnd == <<"<", "|", "i", "m", "_", "e", "n", "d", "|", ">">>

\* The text of the cleaning example.
HelloWavesFriend ==
  <<"H", "e", "l", "l", "o", " ", "(", "w", "a", "v", "e", "s", ")", " ",
    "f", "r", "i", "e", "n", "d">>

\* Texts with bracketed asides, texts with sentence ends, texts with
\* <|im_start|> ... <|im_end|> blocks, and the texts of the scenarios.
BracketInputs == SeqsUpTo({"a", "(", ")", " "}, MaxBracketLen)
SentenceInputs == SeqsUpTo({"a", " ", ".", "u3002", "\n"}, MaxSentenceLen)
BlockInputs ==
  {Flatten(ps) : ps \in SeqsUpTo({<<"a">>, <<"b">>, ImStart, ImEnd}, MaxBlockPieces)}
ExampleInputs ==
  { HelloWavesFriend,
    <<"a", "uFF08", "b", "uFF09", "c">>,
    <<"uFF08", "(", "a", "uFF09", "b", ")">>,
    ScenarioText }
TextInputs == BracketInputs \cup SentenceInputs \cup BlockInputs \cup ExampleInputs

\* A text arrives.
TextInput(s) ==
  /\ txt.pc = "idle"
  /\ txt' = [txt EXCEPT !.pc = "input", !.input = s]
  /\ UNCHANGED <<cacheVars, hookVars>>

\* cleanModelOutput(text)
ApplyClean ==
  /\ txt.pc = "input"
  /\ txt' = [txt EXCEPT !.pc = "cleaned", !.cleaned = cleanModelOutput(txt.input)]
  /\ UNCHANGED <<cacheVars, hookVars>>

\* splitTextIntoSegments(text)
ApplySplit ==
  /\ txt.pc = "input"
  /\ txt' = [txt EXCEPT !.pc = "split", !.segments = splitTextIntoSegments(txt.input)]
  /\ UNCHANGED <<cacheVars, hookVars>>

\* splitTextIntoSegments of each segment.
ApplyResplit ==
  /\ txt.pc = "split"
  /\ txt' = [txt EXCEPT !.pc = "resplit",
                        !.again = [i \in 1..Len(txt.segments) |->
                                     splitTextIntoSegments(txt.segments[i])]]
  /\ UNCHANGED <<cacheVars, hookVars>>

NextText ==
  \/ \E s \in TextInputs : TextInput(s)
  \/ ApplyClean
  \/ ApplySplit
  \/ ApplyResplit

SpecText == Init /\ [][NextText]_vars


(***************************************************************************)
(* Properties of the cache and of generateSpeech.                          *)
(***************************************************************************)
SameTextVoice(r1, r2) ==
  Requests[r1].text = Requests[r2].text /\ Requests[r1].voiceId = Requests[r2].voiceId

SameSpeed(r1, r2) == Requests[r1].config.speed = Requests[r2].config.speed

\* A call with a cache manager whose own last call stored audio under the
\* same key, with nothing else running from the start of that saveAudio to
\* the end of this getAudio, no fault injected and maxAge not elapsed.
RoundTripCase(me) ==
  /\ me.after.valid
  /\ Requests[me.req].cache
  /\ me.after.saveQuiet
  /\ me.quiet
  /\ faults = 0
  /\ ReqHash(me.req) = ReqHash(me.after.req)

\* C1: saveAudio followed immediately by getAudio with the same (text,
\* voiceId, params), before maxAge elapses and with no other operation in
\* between, returns a buffer byte-identical to the one stored.
C1_RoundTrip ==
  \A p \in Procs :
    LET me == thr[p]
    IN RoundTripCase(me) =>
         /\ me.pc \in {"read", "done"}
         /\ me.pc = "done" =>
              /\ me.hit
              /\ ~me.res.null
              /\ me.res.buf = me.after.buf

C1_Witness ==
  \E p \in Procs :
    /\ RoundTripCase(thr[p])
    /\ thr[p].pc = "done"
    /\ thr[p].hit
    /\ Len(thr[p].res.buf) > 0

\* The second of two sequential calls with the same text, voiceId and speed:
\* the first one found the key neither cached nor being deleted and stored
\* its audio, no fault was injected, maxAge has not elapsed.
SecondCallCase(me) ==
  /\ me.after.valid
  /\ Requests[me.req].cache
  /\ me.after.cold
  /\ faults = 0
  /\ SameTextVoice(me.req, me.after.req)
  /\ SameSpeed(me.req, me.after.req)

\* C2: of two sequential generateSpeech calls with identical (text, voiceId,
\* speed) and a cache manager attached, the first misses the cache and issues
\* exactly one remote call; the second, within maxAge, is served from the
\* cache and issues no remote call.
C2_SecondCallHits ==
  \A p \in Procs :
    LET me == thr[p]
    IN /\ (me.pc = "done" /\ me.hit) => me.calls = 0
       /\ SecondCallCase(me) =>
            /\ me.after.calls = 1
            /\ me.pc \in {"read", "done"}
            /\ me.calls = 0
            /\ me.pc = "done" => me.hit /\ ~me.res.null

C2_Witness ==
  \E p \in Procs :
    /\ SecondCallCase(thr[p])
    /\ thr[p].after.calls = 1
    /\ thr[p].pc = "done"
    /\ thr[p].hit
    /\ thr[p].calls = 0

\* C3: a lookup never returns the audio stored for the same text and voiceId
\* at another speed: every byte a cache hit returns was rendered at the speed
\* of the request.
C3_NoSpeedCollision ==
  \A p \in Procs :
    LET me == thr[p]
    IN (me.pc = "done" /\ me.hit) =>
         \A i \in 1..Len(me.res.buf) :
           me.res.buf[i] \div 10 = Requests[me.req].config.speed

\* Audio is stored at one speed; the next call asks for the same text and
\* voiceId at another speed, misses and makes its own remote call.
C3_Witness ==
  \E p \in Procs :
    LET me == thr[p]
    IN /\ me.after.valid
       /\ SameTextVoice(me.req, me.after.req)
       /\ ~SameSpeed(me.req, me.after.req)
       /\ me.pc = "done"
       /\ ~me.hit
       /\ me.calls = 1

\* C4: two requests with the same text and voice that differ in any one
\* synthesis parameter (sampleRate among them) never share a cache entry:
\* every byte a cache hit returns was rendered with the parameters of the
\* request.
C4_FullParameterKey ==
  \A p \in Procs :
    LET me == thr[p]
    IN (me.pc = "done" /\ me.hit) =>
         \A i \in 1..Len(me.res.buf) :
           me.res.buf[i] = AudioByte(Requests[me.req].config)

\* C5: once more than maxAge has elapsed since an entry was stored, getAudio
\* for its key is a miss: a call that finds its entry older than maxAge never
\* reads the file and never returns a hit.
C5_LazyExpiry ==
  \A p \in Procs :
    thr[p].stale => (~thr[p].hit /\ thr[p].pc # "read")

C5_Witness ==
  \E p \in Procs :
    /\ thr[p].stale
    /\ thr[p].pc = "done"
    /\ ~thr[p].hit

SavingAudio(rec) == rec.pc \in {"aw_open", "aw_data", "iw_open", "iw_data"}

\* C6: when every stored buffer is no larger than maxSize, the audio on disk
\* totals at most maxSize once each saveAudio has completed.
C6_SizeBound ==
  ((\A r \in ReqIds : Len(Audio(Requests[r])) <= MaxSize)
     /\ (\A p \in Procs : ~SavingAudio(thr[p])))
    => TotalSize <= MaxSize

\* The filter replied EMPTY: no synthesis, nothing sent, the message as it was.
C7_EmptySuppresses ==
  (hook.filter = "reply" /\ toUpperCase(trim(hook.reply)) = <<"E", "M", "P", "T", "Y">>) =>
    /\ out.genCalls = <<>>
    /\ out.sent = <<>>
    /\ hook.content = [text |-> hook.original, audio |-> <<>>]

\* The filter call threw: the segments of the full cleaned text are synthesized.
C7_ThrowFallsBack ==
  hook.filter = "reject" =>
    /\ out.genCalls = splitTextIntoSegments(hook.cleanedText)
    /\ out.genCalls # <<>>

\* C7: in openai_filter mode suppression and error differ: on the sentinel
\* EMPTY the hook synthesizes nothing and leaves the message untouched; when
\* the filter call throws, the hook synthesizes the full cleaned text.
C7_SuppressionVsError == C7_EmptySuppresses /\ C7_ThrowFallsBack

\* C8: when a lookup finds an entry's backing file missing or unreadable, the
\* entry is removed from the in-memory index and from the persisted index
\* file, so that no later lookup (of this or a later manager) sees it.
C8_SelfHealing ==
  (Quiescent /\ ~indexWriteFailed) =>
    \A h \in healed :
      /\ IndexGet(cacheIndex, h) = {}
      /\ IndexGet(indexFile.data, h) = {}

\* C9: a cache failure never fails synthesis: no cache error escapes as an
\* exception, and a call whose remote call succeeded with non-empty audio
\* returns that audio whatever became of the lookup and of the writes.
C9_CacheNeverFailsSynthesis ==
  /\ \A t \in Threads : thr[t].pc # "threw"
  /\ \A p \in Procs :
       LET me == thr[p]
       IN (me.pc = "done" /\ me.calls = 1 /\ me.buf # <<>>) =>
            (~me.res.null /\ me.res.buf = me.buf)

\* The remote call gave audio, the cache write failed, the audio is returned.
C9_Witness ==
  \E p \in Procs :
    LET me == thr[p]
    IN /\ me.pc = "done"
       /\ me.calls = 1
       /\ me.buf # <<>>
       /\ Requests[me.req].cache
       /\ ~me.saved
       /\ me.res = Some(me.buf)

\* C10: index-file writes are serialized: once all concurrent saveAudio and
\* deleteEntry operations have completed, the persisted index file equals the
\* in-memory index.
C10_IndexFileMatches ==
  (Quiescent /\ ~indexWriteFailed) =>
    \/ indexFile.state = "ok" /\ indexFile.data = cacheIndex
    \/ indexFile.state = "absent" /\ cacheIndex = {}

\* The audio the hook has handed on: the element put into session.content,
\* or the one given to sendMessage.
DeliveredAudio ==
  IF hook.content.audio # <<>> THEN hook.content.audio[Len(hook.content.audio)]
  ELSE hook.sending

HasDelivered == hook.content.audio # <<>> \/ hook.pc = "send" \/ hook.sendOk # "none"

\* The renderings of the segments k..n that succeeded, in segment order.
RECURSIVE InSegmentOrder(_)
InSegmentOrder(k) ==
  IF k > Len(hook.segments) THEN <<>>
  ELSE (IF hook.audioBuffers[k].state = "buffer" THEN Rendering(hook.segments[k]) ELSE <<>>)
       \o InSegmentOrder(k + 1)

\* C11: in whatever order the concurrent per-segment synthesis calls complete,
\* the final audio buffer is the concatenation of the successful segments'
\* buffers in the original segment order.
C11_OrderPreserved ==
  HasDelivered => DeliveredAudio = InSegmentOrder(1)

\* Three segments all succeeded, the last one first, and the audio went out.
C11_Witness ==
  /\ HasDelivered
  /\ Len(hook.segments) = 3
  /\ hook.order = <<3, 1, 2>>
  /\ DeliveredAudio = <<hook.segments[1], hook.segments[2], hook.segments[3]>>

Untouched == hook.content = [text |-> hook.original, audio |-> <<>>]

InFlight == \E k \in 1..Len(hook.audioBuffers) : hook.audioBuffers[k] = Pending

\* C12: the hook neither modifies session.content nor sends any audio message
\* while a segment's synthesis call is still in flight.
C12_JoinAll ==
  InFlight =>
    /\ Untouched
    /\ out.sent = <<>>
    /\ hook.pc = "synth"
    /\ hook.sending = <<>>

\* One segment has its audio, another is still in flight: nothing has gone out.
C12_Witness ==
  /\ InFlight
  /\ \E k \in 1..Len(hook.audioBuffers) : hook.audioBuffers[k].state = "buffer"
  /\ Untouched
  /\ out.sent = <<>>

Succeeded == {k \in 1..Len(hook.audioBuffers) : hook.audioBuffers[k].state = "buffer"}

AllFailed ==
  /\ hook.audioBuffers # <<>>
  /\ \A k \in 1..Len(hook.audioBuffers) : hook.audioBuffers[k] = Failed

\* C13: a segment whose synthesis fails is dropped and not retried (at most
\* one generateSpeech call per segment); if every segment fails, no audio is
\* sent and session.content is left unchanged.
C13_FailedSegmentsDropped ==
  /\ out.genCalls \in {<<>>, hook.segments}
  /\ HasDelivered =>
       /\ Len(DeliveredAudio) = Cardinality(Succeeded)
       /\ \A k \in 1..Len(hook.segments) :
            (\E j \in 1..Len(DeliveredAudio) : DeliveredAudio[j] = hook.segments[k])
              => k \in Succeeded
  /\ AllFailed =>
       /\ hook.pc = "done"
       /\ ~HasDelivered
       /\ Untouched
       /\ out.sent = <<>>

\* Of three segments the second failed: the audio of the other two went out,
\* after three calls of generateSpeech.
C13_Witness ==
  /\ hook.pc = "done"
  /\ Len(hook.segments) = 3
  /\ Succeeded = {1, 3}
  /\ Len(out.genCalls) = 3
  /\ HasDelivered
  /\ DeliveredAudio = <<hook.segments[1], hook.segments[3]>>

\* The hook has returned and at least one segment was synthesized.
DoneWithAudio == hook.pc = "done" /\ Succeeded # {}

\* C14: with non-empty audio, voice_only replaces session.content with the
\* audio element; mixed keeps the original text and appends the audio element
\* in the same message; text_and_voice hands the audio to sendMessage as a
\* separate message and leaves session.content unchanged.  Nothing but
\* sendMode enters the choice.
C14_SendStrategy ==
  DoneWithAudio =>
    LET audioElem == InSegmentOrder(1)
    IN CASE hook.cfg.sendMode = "voice_only" ->
              /\ hook.content = [text |-> <<>>, audio |-> <<audioElem>>]
              /\ out.sent = <<>>
         [] hook.cfg.sendMode = "mixed" ->
              /\ hook.content = [text |-> hook.original, audio |-> <<audioElem>>]
              /\ out.sent = <<>>
         [] hook.cfg.sendMode = "text_and_voice" ->
              /\ Untouched
              /\ hook.channelId => hook.sendOk # "none"
              /\ hook.sendOk = "ok" => out.sent = <<audioElem>>
              /\ hook.sendOk # "ok" => out.sent = <<>>

\* mixed: the text is still there and the audio follows it.
C14_Witness ==
  /\ DoneWithAudio
  /\ hook.cfg.sendMode = "mixed"
  /\ hook.content.text = hook.original
  /\ hook.original # <<>>
  /\ Len(hook.content.audio) = 1

\* A failure that ends the pipeline without audio: the filter call rejected,
\* every segment failed, or sendMessage rejected.
PipelineFailed == hook.filter = "reject" \/ AllFailed \/ hook.sendOk = "failed"

ScenarioRun ==
  /\ hook.original = ScenarioText
  /\ hook.cfg.selectorMode = "full"
  /\ hook.pc \in {"synth", "send", "done"}
  /\ hook.stages # <<"Received", "Ignored">>

\* The cleaned text of the scenario: the message without its bracketed aside.
ScenarioCleaned == SubSeq(ScenarioText, 1, 10)

\* Cleaning removes the aside of the scenario's message.
C16_CleaningPart == ScenarioRun => hook.cleanedText = ScenarioCleaned

\* C16: for the scenario's message with selectorMode full and minLength 2,
\* cleaning removes the bracketed aside, segmentation of the cleaned text
\* yields exactly one segment, and generateSpeech is invoked exactly once,
\* with that segment's text.
C16_OneSegmentOneCall ==
  ScenarioRun =>
    /\ hook.cleanedText = ScenarioCleaned
    /\ Len(hook.segments) = 1
    /\ out.genCalls = hook.segments
    /\ Len(out.genCalls) = 1

IsPrefix(s, t) == Len(s) <= Len(t) /\ SubSeq(t, 1, Len(s)) = s

\* The ways through the pipeline; a message the hook does not handle (empty,
\* already audio, another bot's) is Ignored.
StagePaths ==
  { <<"Received", "Cleaned", "Selected", "Segmented", "Done">>,
    <<"Received", "Cleaned", "Suppressed">>,
    <<"Received", "Cleaned", "TooShort">>,
    <<"Received", "Ignored">> }

\* The selector returned nothing to speak (openai_filter mode).
Suppressed ==
  /\ hook.cfg.selectorMode = "openai_filter"
  /\ hook.selector = "returned"
  /\ (hook.selected.null \/ Len(trim(hook.selected.buf)) < MinLength)

TooShortAfterCleaning ==
  /\ Len(hook.stages) >= 2
  /\ hook.stages[2] = "Cleaned"
  /\ Len(hook.cleanedText) < MinLength

\* C17: every handled message goes Received, Cleaned, then Suppressed or
\* Selected, Segmented, Done, in that order; the selection capability is
\* never called before cleaning and the length gate, no synthesis call is
\* issued before selection has finished, and Suppressed and
\* too-short-after-cleaning are terminal states without any synthesis call.
C17_StageOrder ==
  /\ \E path \in StagePaths : IsPrefix(hook.stages, path)
  /\ (out.chatCalls > 0 \/ out.filterPosts > 0) =>
       /\ IsPrefix(<<"Received", "Cleaned">>, hook.stages)
       /\ hook.cleanedText = cleanModelOutput(unescape(hook.original))
       /\ Len(hook.cleanedText) >= MinLength
  /\ hook.pc \in {"chat", "sleep", "filter"} =>
       /\ hook.selector = "pending"
       /\ out.genCalls = <<>>
  /\ out.genCalls # <<>> =>
       /\ hook.selector # "pending"
       /\ IsPrefix(<<"Received", "Cleaned", "Selected", "Segmented">>, hook.stages)
  /\ (Suppressed \/ TooShortAfterCleaning) =>
       /\ hook.pc = "done"
       /\ out.genCalls = <<>>
       /\ hook.stages[Len(hook.stages)] \in {"Suppressed", "TooShort"}

\* A message went all the way: the filter was asked after cleaning, chose a
\* text, and the text was segmented, synthesized and handed on.
C17_Witness ==
  /\ hook.stages = <<"Received", "Cleaned", "Selected", "Segmented", "Done">>
  /\ out.filterPosts = 1
  /\ out.genCalls # <<>>
  /\ HasDelivered

\* C18: when the cleaned text is shorter than autoSpeech.minLength the hook
\* ends with no speech: it calls neither a selection capability nor
\* generateSpeech, and session.content is unchanged.
C18_LengthGate ==
  (hook.pc # "idle" /\ Len(cleanModelOutput(unescape(hook.original))) < MinLength) =>
    /\ hook.pc = "done"
    /\ out.chatCalls = 0
    /\ out.filterPosts = 0
    /\ out.genCalls = <<>>
    /\ out.sent = <<>>
    /\ Untouched

\* A one-character message reached the gate and ended there.
C18_Witness ==
  /\ hook.stages = <<"Received", "Cleaned", "TooShort">>
  /\ Len(hook.cleanedText) = 1
  /\ hook.pc = "done"
  /\ out.genCalls = <<>>
  /\ Untouched

\* ai_sentence mode, the selector has returned and gave nothing usable: the
\* capability is missing, threw on every attempt, or its reply was empty or
\* too short.
SentenceSelectorFailed ==
  /\ hook.cfg.selectorMode = "ai_sentence"
  /\ hook.selector = "returned"
  /\ (hook.selected.null \/ Len(hook.selected.buf) < MinLength)

\* C19: in ai_sentence mode, whenever the conversational-model capability is
\* missing, throws on every attempt or returns nothing usable, the hook
\* synthesizes the full cleaned text; the failure neither propagates out of
\* the hook nor suppresses speech.
C19_SentenceFallback ==
  /\ hook.cfg.selectorMode = "ai_sentence" => hook.pc # "threw"
  /\ SentenceSelectorFailed =>
       /\ hook.targetText = hook.cleanedText
       /\ hook.segments = splitTextIntoSegments(hook.cleanedText)
       /\ out.genCalls = hook.segments
       /\ out.genCalls # <<>>

\* The model threw on all three attempts and the full text was synthesized.
C19_Witness ==
  /\ SentenceSelectorFailed
  /\ out.chatThrows = MAX_RETRIES + 1
  /\ out.genCalls = splitTextIntoSegments(hook.cleanedText)
  /\ Len(out.genCalls) >= 2

\* The calls of the model, the throws and the sleeps add up: every call after
\* the first follows one sleep, and every throw but the last is followed by
\* one.
RetryAccounting ==
  /\ out.chatCalls <= MAX_RETRIES + 1
  /\ out.chatThrows <= out.chatCalls
  /\ out.sleeps = (IF out.chatThrows <= MAX_RETRIES THEN out.chatThrows ELSE MAX_RETRIES)
  /\ out.chatCalls > 0 => out.chatCalls = out.sleeps + (IF hook.pc = "sleep" THEN 0 ELSE 1)
  /\ out.chatThrows = MAX_RETRIES + 1 =>
       /\ hook.selector = "returned"
       /\ hook.selected.null

\* C20: selectSpeechSentenceByAI calls the model at most MAX_RETRIES + 1 = 3
\* times per message, sleeps between consecutive failed attempts, and always
\* terminates, returning null after the last attempt has failed.
C20_BoundedRetries ==
  /\ []RetryAccounting
  /\ [][(out'.chatCalls > out.chatCalls /\ out.chatCalls > 0) => hook.pc = "sleep"]_vars
  /\ (hook.selector = "pending") ~> (hook.selector = "returned")

\* Three calls, three throws, two sleeps, and the selector returned null.
C20_Witness ==
  /\ out.chatCalls = MAX_RETRIES + 1
  /\ out.chatThrows = MAX_RETRIES + 1
  /\ out.sleeps = MAX_RETRIES
  /\ hook.selector = "returned"
  /\ hook.selected.null

\* The words the filter may answer with to say that nothing is to be spoken.
Sentinels ==
  { <<"E", "M", "P", "T", "Y">>, <<"N", "O", "N", "E">>, <<"N", "U", "L", "L">> }

\* The filter replied with one of the sentinel words, in some letter case.
SentinelReply == hook.filter = "reply" /\ toUpperCase(trim(hook.reply)) \in Sentinels

\* The sentinels the code knows, EMPTY and NONE, do suppress speech.
C21_EmptyNonePart ==
  (SentinelReply /\ toUpperCase(trim(hook.reply)) # <<"N", "U", "L", "L">>) =>
    (out.genCalls = <<>> /\ hook.pc = "done")

\* C21: in openai_filter mode a reply that equals EMPTY, NONE or NULL in any
\* letter case suppresses speech entirely: no generateSpeech call is made and
\* the sentinel word itself is never synthesized.
C21_SentinelSuppresses ==
  SentinelReply =>
    /\ out.genCalls = <<>>
    /\ \A k \in 1..Len(out.genCalls) : toUpperCase(out.genCalls[k]) \notin Sentinels

\* C22: in openai_filter mode, when the filter capability is unavailable (base
\* URL, API key or model not configured), the hook synthesizes the full
\* cleaned text instead of suppressing speech.
C22_UnconfiguredFallsBack ==
  (hook.cfg.selectorMode = "openai_filter" /\ ~openaiLikeConfigured(hook.cfg)
     /\ hook.selector = "returned") =>
    /\ out.genCalls = splitTextIntoSegments(hook.cleanedText)
    /\ out.genCalls # <<>>
    /\ hook.targetText = hook.cleanedText

\* The very short part: below minLength no filter call is made.
C23_VeryShortPart ==
  (hook.pc # "idle" /\ Len(cleanModelOutput(unescape(hook.original))) < MinLength) =>
    out.filterPosts = 0

\* C23: in openai_filter mode, when the cleaned text is a single sentence (or
\* very short), no HTTP call to the external chat-completion endpoint is
\* issued for that message.
C23_PreCheck ==
  (hook.pc # "idle" /\ hook.cfg.selectorMode = "openai_filter"
     /\ Len(Sentences(cleanModelOutput(unescape(hook.original)))) <= 1) =>
    out.filterPosts = 0

\* The maximal runs of a text without a sentence end or newline: where they
\* start, where the one starting at i ends, and the run itself.
RunStarts(s) ==
  {i \in 1..Len(s) : s[i] \notin SentenceEnd /\ (i = 1 \/ s[i - 1] \in SentenceEnd)}

RunEnd(s, i) ==
  CHOOSE j \in i..Len(s) :
    /\ \A k \in i..j : s[k] \notin SentenceEnd
    /\ (j = Len(s) \/ s[j + 1] \in SentenceEnd)

Run(s, i) == SubSeq(s, i, RunEnd(s, i))

\* The runs that are not blank, and the place of each among them.
KeptRuns(s) == {i \in RunStarts(s) : \E k \in i..RunEnd(s, i) : s[k] \notin Whitespace}

Rank(s, i) == Cardinality({j \in KeptRuns(s) : j <= i})

Segmented == txt.pc \in {"split", "resplit"}

\* C24: for every input text splitTextIntoSegments returns the pieces between
\* sentence-ending punctuation and newlines in their original left-to-right
\* order; every returned segment is non-empty, equals its own trim and
\* contains no delimiter; an empty or delimiter-only input yields the empty
\* list.
C24_SegmentationPostcondition ==
  Segmented =>
    LET s == txt.input
        segs == txt.segments
    IN /\ Len(segs) = Cardinality(KeptRuns(s))
       /\ \A i \in KeptRuns(s) : segs[Rank(s, i)] = trim(Run(s, i))
       /\ \A k \in 1..Len(segs) :
            /\ segs[k] # <<>>
            /\ segs[k] = trim(segs[k])
            /\ \A j \in 1..Len(segs[k]) : segs[k][j] \notin SentenceEnd
       /\ (\A k \in 1..Len(s) : s[k] \in SentenceEnd) => segs = <<>>

\* A text of three pieces, the one in the middle blank: two segments come out.
C24_Witness ==
  /\ Segmented
  /\ Len(txt.segments) = 2
  /\ Cardinality(RunStarts(txt.input)) = 3

\* A single sentence: a text with no sentence end or newline that is not blank.
SingleSentence(s) ==
  /\ \A k \in 1..Len(s) : s[k] \notin SentenceEnd
  /\ \E k \in 1..Len(s) : s[k] \notin Whitespace

\* C25: segmenting a single sentence yields exactly one segment, the trimmed
\* input, and segmenting again any segment that splitTextIntoSegments
\* produced yields that same single segment.
C25_SegmentationIdempotent ==
  /\ (Segmented /\ SingleSentence(txt.input)) => txt.segments = <<trim(txt.input)>>
  /\ txt.pc = "resplit" =>
       \A i \in 1..Len(txt.segments) : txt.again[i] = <<txt.segments[i]>>

\* Two segments were segmented again and came back as they were.
C25_Witness ==
  /\ txt.pc = "resplit"
  /\ Len(txt.segments) = 2
  /\ txt.again = <<<<txt.segments[1]>>, <<txt.segments[2]>>>>

\* The bracket depth before position k of a text with ( and ).
RECURSIVE Depth(_, _)
Depth(s, k) ==
  IF k <= 1 THEN 0
  ELSE LET d == Depth(s, k - 1)
       IN CASE s[k - 1] = "(" -> d + 1
            [] s[k - 1] = ")" -> d - 1
            [] OTHER -> d

\* Every ) closes a ( and every ( is closed.
Balanced(s) ==
  /\ \A k \in 1..(Len(s) + 1) : Depth(s, k) >= 0
  /\ Depth(s, Len(s) + 1) = 0

MaxDepth(s) ==
  CHOOSE d \in 0..Len(s) :
    /\ \E k \in 1..(Len(s) + 1) : Depth(s, k) = d
    /\ \A k \in 1..(Len(s) + 1) : Depth(s, k) <= d

Count(s, c) == Cardinality({k \in 1..Len(s) : s[k] = c})

\* The letters of a text that no bracket encloses.
OutsideLetters(s) == Cardinality({k \in 1..Len(s) : s[k] = "a" /\ Depth(s, k) = 0})

HelloFriend == <<"H", "e", "l", "l", "o", " ", "f", "r", "i", "e", "n", "d">>

CleanedBrackets ==
  txt.pc = "cleaned" /\ txt.input \in BracketInputs /\ Balanced(txt.input)

\* Without nesting the asides are removed, and the example cleans as said.
C26_FlatPart ==
  /\ (CleanedBrackets /\ MaxDepth(txt.input) <= 1) =>
       /\ Count(txt.cleaned, "a") = OutsideLetters(txt.input)
       /\ Count(txt.cleaned, "(") = 0
       /\ Count(txt.cleaned, ")") = 0
  /\ (txt.pc = "cleaned" /\ txt.input = HelloWavesFriend) => txt.cleaned = HelloFriend

\* C26: for every input the cleaned text contains no text that was enclosed
\* in brackets in the input, nested brackets included, and
\* "Hello (waves) friend" cleans to "Hello friend".
C26_AsidesRemoved ==
  /\ CleanedBrackets => Count(txt.cleaned, "a") = OutsideLetters(txt.input)
  /\ (txt.pc = "cleaned" /\ txt.input = HelloWavesFriend) => txt.cleaned = HelloFriend

\* A text of the block family with a <|im_start|> ... <|im_end|> block.
CleanedBlock ==
  /\ txt.pc = "cleaned"
  /\ txt.input \in BlockInputs
  /\ RemoveSpans(txt.input, ImStart, ImEnd) # txt.input

\* The delimiters themselves never reach the cleaned text.
C27_DelimitersPart ==
  txt.pc = "cleaned" => (~includes(txt.cleaned, ImStart) /\ ~includes(txt.cleaned, ImEnd))

\* C27: for every input containing a <|im_start|> ... <|im_end|> block the
\* cleaned text contains neither the delimiters nor any of the text that was
\* between them.
C27_BlocksRemoved ==
  CleanedBlock =>
    /\ ~includes(txt.cleaned, ImStart)
    /\ ~includes(txt.cleaned, ImEnd)
    /\ Count(txt.cleaned, "b") = Count(RemoveSpans(txt.input, ImStart, ImEnd), "b")


(***************************************************************************)
(* The response of the speech service.                                     *)
(***************************************************************************)
\* The calls whose POST has settled with a response of the service.
Answered(p) == thr[p].resp.kind \in {"bin", "badjson", "json"}

\* The call returned the failure result and left no save behind.
FailedUnsaved(p) == thr[p].pc = "done" /\ thr[p].res.null /\ ~thr[p].saved

\* C28: a call whose response body starts like JSON but does not parse
\* returns null and saves nothing; the raw bytes are not handed on as audio.
C28_MalformedIsFailure ==
  \A p \in Procs : thr[p].resp.kind = "badjson" => FailedUnsaved(p)

\* C29: a call whose decoded audio (raw body, or the hex-decoded data.audio)
\* has length 0 returns null, and no call that went to the service returns
\* an empty buffer.
C29_ZeroLengthIsError ==
  \A p \in Procs :
    LET me == thr[p]
        audioData == audioDataOf(me.resp)
    IN /\ (Answered(p) /\ ~audioData.null /\ Len(audioData.buf) = 0)
            => FailedUnsaved(p)
       /\ (Answered(p) /\ me.pc = "done" /\ ~me.res.null) => Len(me.res.buf) > 0

\* C29 witness: a hex string that decodes to no bytes and an empty binary
\* body were both answered with null.
C29_Witness ==
  /\ \E p \in Procs : /\ thr[p].resp.kind = "json" /\ thr[p].resp.status = 0
                      /\ thr[p].resp.hex = <<"z", "z">>
                      /\ FailedUnsaved(p)
  /\ \E p \in Procs : /\ thr[p].resp.kind = "bin" /\ thr[p].resp.body = <<>>
                      /\ FailedUnsaved(p)

\* C30: a call whose JSON envelope carries a status code other than 0 returns
\* null and saves nothing, whether or not data.audio is present.
C30_StatusCodeIsFailure ==
  \A p \in Procs :
    (thr[p].resp.kind = "json" /\ thr[p].resp.status # 0) => FailedUnsaved(p)

\* C30 witness: an envelope with status code 1 and decodable audio, answered
\* with null, while the cache holds nothing under the call's key.
C30_Witness ==
  \E p \in Procs :
    /\ thr[p].resp.kind = "json" /\ thr[p].resp.status # 0
    /\ thr[p].resp.hex = HexEncode(Audio(Requests[thr[p].req]))
    /\ Requests[thr[p].req].cache
    /\ FailedUnsaved(p)
    /\ IndexGet(cacheIndex, thr[p].hash) = {}


(***************************************************************************)
(* The failure modes of generateSpeech.                                    *)
(***************************************************************************)
\* The call was made without an API key.
NoApiKey(p) == thr[p].pc # "idle" /\ Requests[thr[p].req].config.ttsApiKey = ""

\* Decoding failed: the body is not parseable JSON, or the envelope carries
\* no usable audio, or the decoded audio is empty.
DecodeFailed(resp) ==
  \/ resp.kind = "badjson"
  \/ resp.kind \in {"bin", "json"} /\ decodeResponse(resp).null

\* The part of C31 that the code keeps: no exception reaches the caller, a
\* call without an API key makes no remote call and returns null unless the
\* cache lookup before the key check was a hit, and a rejected POST gives null.
C31_NoThrowPart ==
  \A p \in Procs :
    /\ thr[p].pc # "threw"
    /\ NoApiKey(p) => /\ thr[p].calls = 0
                      /\ thr[p].resp = NoResponse
                      /\ thr[p].pc = "done" => (thr[p].res.null \/ thr[p].hit)
    /\ thr[p].resp.kind = "reject" => FailedUnsaved(p)

\* C31: generateSpeech never throws for expected failures: without an API
\* key it makes no remote call and returns null (a cache hit aside), and a
\* rejected POST or a failed decoding gives null.
C31_ExpectedFailuresGiveNull ==
  /\ C31_NoThrowPart
  /\ \A p \in Procs : DecodeFailed(thr[p].resp) => FailedUnsaved(p)


(***************************************************************************)
(* Who writes cache entries.                                               *)
(***************************************************************************)
\* The call is inside saveAudio, or its saveAudio has set the entry.
InSaveAudio(p) ==
  thr[p].pc \in {"aw_open", "aw_data", "iw_open", "iw_data"} \/ thr[p].saved

\* The part of C32 that the code keeps: saveAudio is reached only with audio
\* that passed the validation of line 148, and a call that returned null was
\* never inside saveAudio.
C32_ValidatedPart ==
  \A p \in Procs :
    /\ InSaveAudio(p) => (Answered(p) /\ ~decodeResponse(thr[p].resp).null)
    /\ (thr[p].pc = "done" /\ thr[p].res.null) => ~thr[p].saved

\* C32: an entry is written only by a call whose remote call succeeded and
\* decoded to non-empty audio; a call that returns null writes none.
C32_EntriesOnlyForSuccess ==
  \A p \in Procs :
    /\ thr[p].saved => (Answered(p) /\ ~DecodeFailed(thr[p].resp))
    /\ (thr[p].pc = "done" /\ thr[p].res.null) => ~thr[p].saved


(***************************************************************************)
(* Pruning.                                                                *)
(***************************************************************************)
\* The call's saveAudio has just completed, undisturbed by other coroutines.
JustStored(p) ==
  /\ thr[p].pc = "done" /\ thr[p].saved
  /\ thr[p].savedAt = now /\ thr[p].saveQuiet

\* C33: a store that exceeds maxSize evicts every entry older than maxAge
\* before anything else: no completed store leaves the directory over budget
\* while an expired entry remains in the index.
C33_ExpiredEvictedFirst ==
  \A p \in Procs :
    (JustStored(p) /\ TotalSize > MaxSize) =>
      \A e \in cacheIndex : ~Expired(now, e)


(***************************************************************************)
(* Restart, initialize and dispose.                                        *)
(***************************************************************************)
\* The first call after a restart: the last call of the old manager found
\* its key neither cached nor being deleted and stored its audio
\* undisturbed, the new manager's initialize had completed when this call
\* began, nothing else ran during the lookup, no fault was injected and
\* maxAge has not elapsed.
RestartCase(me) ==
  /\ me.after.valid
  /\ me.after.cold
  /\ me.after.saveQuiet
  /\ me.gen = me.after.gen + 1
  /\ me.ready
  /\ me.quiet
  /\ faults = 0
  /\ ReqHash(me.req) = ReqHash(me.after.req)

\* C34: after saveAudio has completed for a key, a fresh manager on the same
\* directory, once initialized, returns the stored bytes for that key.
C34_IndexSurvivesRestart ==
  \A p \in Procs :
    LET me == thr[p]
    IN RestartCase(me) =>
         /\ me.pc \in {"read", "done"}
         /\ me.pc = "done" =>
              /\ me.hit
              /\ ~me.res.null
              /\ me.res.buf = me.after.buf

\* C34 witness: the call after the restart was a hit on the stored bytes.
C34_Witness ==
  \E p \in Procs :
    /\ RestartCase(thr[p])
    /\ thr[p].pc = "done"
    /\ thr[p].hit
    /\ thr[p].res.buf = thr[p].after.buf
    /\ Len(thr[p].res.buf) > 0


\* C35: a second initialize on the same manager, interleaved in any way with
\* lookups and stores and with no disk fault, leaves the in-memory index as
\* it was: it loses no entry and brings none back.
C35_InitializeIdempotent ==
  [][\A t \in Tasks :
       (thr[t].pc = "init_read" /\ thr[t].second /\ thr'[t].pc # "init_read"
          /\ faults' = 0)
         => cacheIndex' = cacheIndex]_vars


\* C36: after dispose() no getAudio or saveAudio touches the disk: a call
\* that was in flight and had not reached saveAudio when the manager was
\* disposed never gets inside saveAudio's writes.
C36_NoIoAfterDispose ==
  life.disposed => \A p \in life.early : ~InSaveAudio(p)


(***************************************************************************)
(* Stalls.                                                                 *)
(***************************************************************************)
\* The part of C37 that the code keeps: the selection stage (filter POST,
\* model call, sleep between retries) always comes to an end.
C37_SelectionPart ==
  (hook.pc \in {"filter", "chat", "sleep"}) ~> (hook.pc \notin {"filter", "chat", "sleep"})

\* C37: every remote call is bounded by a timeout, so a hook that has taken
\* up a message completes even when an endpoint never responds.
C37_BoundedStall ==
  (hook.pc # "idle") ~> (hook.pc \in {"done", "threw"})


(***************************************************************************)
(* The index and the directory.                                            *)
(***************************************************************************)
\* C38: once every operation has completed, with no disk fault, every audio
\* file in the directory has an index entry and every index entry has its
\* file.
C38_IndexMatchesDirectory ==
  (Quiescent /\ faults = 0) =>
    /\ \A f \in files : \E e \in cacheIndex : e.filePath = f.path
    /\ \A e \in cacheIndex : existsSync(files, e.filePath)


\* The half of C38 that the code keeps when no disk call fails: at rest no
\* audio file is without an index entry.
C38_NoOrphanPart ==
  (Quiescent /\ faults = 0) =>
    \A f \in files : \E e \in cacheIndex : e.filePath = f.path


(***************************************************************************)
(* The hook and its own messages.                                          *)
(***************************************************************************)
\* The message the hook was given contains an audio element.
ContainsAudio(content) ==
  \/ includes(content, <<"<", "a", "u", "d", "i", "o">>)
  \/ includes(content, <<"[", "C", "Q", ":", "r", "e", "c", "o", "r", "d">>)

\* C39: a message that already contains an audio element passes unchanged
\* with no remote call and no send; the audio message the hook sends in
\* text_and_voice mode starts no further synthesis; one message causes at
\* most one audio message.
C39_NoSelfTrigger ==
  /\ (hook.pc # "idle" /\ ContainsAudio(hook.original)) =>
       /\ hook.pc = "done"
       /\ hook.content = [text |-> hook.original, audio |-> <<>>]
       /\ out.genCalls = <<>> /\ out.sent = <<>>
       /\ out.chatCalls = 0 /\ out.filterPosts = 0
  /\ \A i \in 1..Len(out.nested) : out.nested[i] # "Synth"
  /\ Len(out.nested) <= 1
  /\ Len(out.sent) <= 1

\* C39 witness: in text_and_voice mode the audio message was sent, went
\* through the hook and was ignored by it.
C39_Witness ==
  /\ hook.pc = "done"
  /\ hook.cfg.sendMode = "text_and_voice"
  /\ Len(out.sent) = 1
  /\ out.nested = <<"Ignored">>
  /\ ContainsAudio(audioElemText(hook.sending))

=============================================================================
